---- MODULE Spec2Model ----
(***************************************************************************)
(* A model of vsd's `save` front end: src/src/commands/save.rs (the        *)
(* current command) and src/src/args/save.rs (the earlier Save, whose      *)
(* tempfile also avoids name collisions).                                  *)
(*                                                                         *)
(* A Rust string is modelled as a sequence of one-character strings, so    *)
(* that starts_with, ends_with, split, replace, trim_*_matches and the     *)
(* std::path operations are computed character by character.  Paths follow *)
(* the Unix rules of std::path (the only separator is '/').                *)
(***************************************************************************)
EXTENDS Integers, Sequences, FiniteSets, TLC

VARIABLES
    input,   \* Save::input
    resume,  \* Save::resume (args/save.rs)
    files,   \* the names that exist in the working directory
    header,  \* Save::header: KEY, VALUE, KEY, VALUE, ...
    set_cookie, \* Save::set_cookie: SET_COOKIE, URL, SET_COOKIE, URL, ...
    token,   \* the option value handed to a value parser
    baseurl, \* Save::baseurl, None when the option is not given
    uri,     \* the argument of Save::get_url
    the_client, \* the local `client` of to_download_state, NoClient before it is bound
    links,   \* the local `links` of to_download_state
    io,      \* what the run has done so far: prints, the request, the prompt
    pc,      \* "args" before the call, "done" after it
    ret      \* what the call returned

vars ==
    <<input, resume, files, header, set_cookie, token, baseurl, uri, the_client,
      links, io, pc, ret>>

-----------------------------------------------------------------------------
(* Bounds of the model. *)

\* the longest input, counted in pieces of InputPieces
MaxPieces == 4

\* the longest input given to the Save of args/save.rs, in pieces
MaxArgsPieces == 2

\* the copies "<stem> (1).<ext>" .. "<stem> (MaxCopies).<ext>" that may exist
MaxCopies == 2

\* the most --header options (pairs of strings) on a command line
MaxHeaderPairs == 2

\* the longest --quality value, counted in pieces of QualityPieces
MaxQualityPieces == 4

\* the longest --key value, counted in pieces of KeyPieces
MaxKeyPieces == 5

\* the longest input of to_download_state, counted in pieces of InputPieces
MaxStatePieces == 2

\* the most links that the scraper finds on a page
MaxLinks == 3

\* the longest tail of an input or base URL, counted in pieces of UrlPieces
MaxUrlPieces == 1

\* the longest argument of get_url, counted in pieces of UriPieces
MaxUriPieces == 2

-----------------------------------------------------------------------------
(* str: the operations of Rust's str that the code calls. *)

\* str::starts_with(pat)
starts_with(s, p) ==
    /\ Len(p) <= Len(s)
    /\ SubSeq(s, 1, Len(p)) = p

\* str::ends_with(pat)
ends_with(s, p) ==
    /\ Len(p) <= Len(s)
    /\ SubSeq(s, Len(s) - Len(p) + 1, Len(s)) = p

\* str::contains(char)
contains(s, c) == \E i \in 1..Len(s) : s[i] = c

\* position of the first c in s, Len(s)+1 when there is none
first_index(s, c) ==
    IF contains(s, c)
    THEN CHOOSE i \in 1..Len(s) : s[i] = c /\ \A j \in 1..(i - 1) : s[j] # c
    ELSE Len(s) + 1

\* position of the last c in s, 0 when there is none
last_index(s, c) ==
    IF contains(s, c)
    THEN CHOOSE i \in 1..Len(s) : s[i] = c /\ \A j \in (i + 1)..Len(s) : s[j] # c
    ELSE 0

\* s.split(c).next().unwrap(): the text before the first c (all of s without c)
split_next(s, c) == SubSeq(s, 1, first_index(s, c) - 1)

\* s.split(c).last().unwrap(): the text after the last c (all of s without c)
split_last(s, c) == SubSeq(s, last_index(s, c) + 1, Len(s))

\* str::replace(c, d) for a character c and a one-character string d
replace(s, c, d) == [i \in 1..Len(s) |-> IF s[i] = c THEN d ELSE s[i]]

RECURSIVE trim_end_matches(_, _)
\* str::trim_end_matches(pat): every repetition of pat at the end is removed
trim_end_matches(s, p) ==
    IF Len(p) > 0 /\ ends_with(s, p)
    THEN trim_end_matches(SubSeq(s, 1, Len(s) - Len(p)), p)
    ELSE s

RECURSIVE trim_start_matches(_, _)
\* str::trim_start_matches(pat): every repetition of pat at the start is
\* removed; an empty pat removes nothing
trim_start_matches(s, p) ==
    IF Len(p) > 0 /\ starts_with(s, p)
    THEN trim_start_matches(SubSeq(s, Len(p) + 1, Len(s)), p)
    ELSE s

UPPER ==
    <<"A", "B", "C", "D", "E", "F", "G", "H", "I", "J", "K", "L", "M",
      "N", "O", "P", "Q", "R", "S", "T", "U", "V", "W", "X", "Y", "Z">>
LOWER ==
    <<"a", "b", "c", "d", "e", "f", "g", "h", "i", "j", "k", "l", "m",
      "n", "o", "p", "q", "r", "s", "t", "u", "v", "w", "x", "y", "z">>

\* char::to_ascii_lowercase
lower_char(c) ==
    IF \E i \in 1..Len(UPPER) : UPPER[i] = c
    THEN LOWER[CHOOSE i \in 1..Len(UPPER) : UPPER[i] = c]
    ELSE c

\* str::to_lowercase, on ASCII text
to_lowercase(s) == [i \in 1..Len(s) |-> lower_char(s[i])]

\* str::replace(c, ""): every c removed
RECURSIVE remove_char(_, _)
remove_char(s, c) ==
    IF s = <<>> THEN <<>>
    ELSE IF Head(s) = c THEN remove_char(Tail(s), c)
    ELSE <<Head(s)>> \o remove_char(Tail(s), c)

-----------------------------------------------------------------------------
(* The literals of the code. *)

HTTP == <<"h", "t", "t", "p">>
DOT_M3U == <<".", "m", "3", "u">>
DOT_M3U8 == <<".", "m", "3", "u", "8">>
TS_M3U8 == <<"t", "s", ".", "m", "3", "u", "8">>
DOT_TS_M3U8 == <<".", "t", "s", ".", "m", "3", "u", "8">>
DOT_MPD == <<".", "m", "p", "d">>
DOT_XML == <<".", "x", "m", "l">>
EXT_TS == <<"t", "s">>
EXT_M4S == <<"m", "4", "s">>
EXT_MP4 == <<"m", "p", "4">>

-----------------------------------------------------------------------------
(* std::path on a path of one component (the code only builds paths from   *)
(* text that holds no '/').                                                *)

\* Option::None: no string, since every element of a string is one character
None == <<"None">>

\* Path::file_name: None for "", "." and "..", else the component
file_name(p) ==
    IF p = <<>> \/ p = <<".">> \/ p = <<".", ".">> THEN None ELSE p

\* Path::file_stem: the name before its last '.', the whole name when the
\* only '.' is the first character or there is none
file_stem(p) ==
    LET n == file_name(p) IN
    IF n = None THEN None
    ELSE IF last_index(n, ".") <= 1 THEN n
    ELSE SubSeq(n, 1, last_index(n, ".") - 1)

\* Path::extension: the name after its last '.', None when the only '.' is
\* the first character or there is none
extension(p) ==
    LET n == file_name(p) IN
    IF n = None THEN None
    ELSE IF last_index(n, ".") <= 1 THEN None
    ELSE SubSeq(n, last_index(n, ".") + 1, Len(n))

\* PathBuf::set_extension(ext), ext not empty: the path is cut right after
\* its file stem and "." ext is pushed; a path with no file name is left alone
set_extension(p, ext) ==
    IF file_stem(p) = None THEN p ELSE file_stem(p) \o <<".">> \o ext

-----------------------------------------------------------------------------
(* Save::input_type *)

\* input_type with the query string left in: the suffix tests see "?..."
input_type_with_query(inp) ==
    IF starts_with(inp, HTTP)
    THEN IF ends_with(inp, DOT_M3U) \/ ends_with(inp, DOT_M3U8) THEN "HlsUrl"
         ELSE IF ends_with(inp, DOT_MPD) \/ ends_with(inp, DOT_XML) THEN "DashUrl"
         ELSE "Website"
    ELSE IF ends_with(inp, DOT_M3U) \/ ends_with(inp, DOT_M3U8) THEN "HlsLocalFile"
         ELSE IF ends_with(inp, DOT_MPD) \/ ends_with(inp, DOT_XML) THEN "DashLocalFile"
         ELSE "LocalFile"

input_type(inp) ==
    LET url == split_next(inp, "?") IN
    IF starts_with(url, HTTP)
    THEN IF ends_with(url, DOT_M3U) \/ ends_with(url, DOT_M3U8) \/ ends_with(url, TS_M3U8)
         THEN "HlsUrl"
         ELSE IF ends_with(url, DOT_MPD) \/ ends_with(url, DOT_XML)
         THEN "DashUrl"
         ELSE "Website"
    ELSE IF ends_with(url, DOT_M3U) \/ ends_with(url, DOT_M3U8) \/ ends_with(url, TS_M3U8)
         THEN "HlsLocalFile"
         ELSE IF ends_with(url, DOT_MPD) \/ ends_with(url, DOT_XML)
         THEN "DashLocalFile"
         ELSE "LocalFile"

-----------------------------------------------------------------------------
(* Save::tempfile of commands/save.rs *)

\* segment with the query string left in
segment_with_query(inp) == split_last(inp, "/")

\* the final path segment of the input, its query string dropped
segment(inp) == split_last(split_next(inp, "?"), "/")

\* the eight replace calls of the fallback branch
sanitize(s) ==
    replace(replace(replace(replace(replace(replace(replace(replace(
        s, "<", "-"), ">", "-"), ":", "-"), "\"", "-"), "/", "-"), "\\", "-"), "|", "-"), "?", "-")

\* tempfile without the branch for the compound suffix .ts.m3u8
tempfile_no_compound(inp) ==
    LET output == segment(inp) IN
    IF ends_with(output, DOT_M3U) \/ ends_with(output, DOT_M3U8)
    THEN set_extension(output, EXT_TS)
    ELSE IF ends_with(output, DOT_MPD) \/ ends_with(output, DOT_XML)
    THEN set_extension(output, EXT_M4S)
    ELSE set_extension(sanitize(output), EXT_MP4)

tempfile(inp) ==
    LET output == segment(inp) IN
    IF ends_with(output, DOT_M3U) \/ ends_with(output, DOT_M3U8)
    THEN IF ends_with(output, DOT_TS_M3U8)
         THEN trim_end_matches(output, DOT_M3U8)
         ELSE set_extension(output, EXT_TS)
    ELSE IF ends_with(output, DOT_MPD) \/ ends_with(output, DOT_XML)
    THEN set_extension(output, EXT_M4S)
    ELSE set_extension(sanitize(output), EXT_MP4)

-----------------------------------------------------------------------------
(* Save::tempfile of args/save.rs: the same name, then the collision loop *)

DIGITS == <<"0", "1", "2", "3", "4", "5", "6", "7", "8", "9">>

RECURSIVE decimal(_)
\* the Display of an integer i >= 0, as format!("{}", i) writes it
decimal(i) ==
    IF i < 10 THEN <<DIGITS[i + 1]>>
    ELSE decimal(i \div 10) \o <<DIGITS[(i % 10) + 1]>>

\* format!("{} ({}).{}", stemed_path, i, ext)
core_file_copy(stemed_path, i, ext) ==
    stemed_path \o <<" ", "(">> \o decimal(i) \o <<")", ".">> \o ext

\* Path::exists in a working directory that holds the names fs: the
\* directory itself and its parent exist, the empty path does not
exists(p, fs) == p \in fs \/ p = <<".">> \/ p = <<".", ".">>

Ok(path) == [kind |-> "ok", val |-> path]
Panic == [kind |-> "panic", val |-> <<>>]

RECURSIVE probe(_, _, _, _)
\* for i in 1.. : the first copy name that does not exist
probe(stemed_path, ext, i, fs) ==
    IF ~exists(core_file_copy(stemed_path, i, ext), fs)
    THEN Ok(core_file_copy(stemed_path, i, ext))
    ELSE probe(stemed_path, ext, i + 1, fs)

\* tempfile_args that probes whether or not the session is resumed
tempfile_args_ignoring_resume(inp, res, fs) ==
    LET output == tempfile(inp) IN
    IF exists(output, fs)
    THEN IF file_stem(output) = None \/ extension(output) = None
         THEN Panic
         ELSE probe(file_stem(output), extension(output), 1, fs)
    ELSE Ok(output)

tempfile_args(inp, res, fs) ==
    LET output == tempfile(inp) IN
    IF exists(output, fs) /\ ~res
    THEN IF file_stem(output) = None
         THEN Panic                        \* file_stem().unwrap()
         ELSE IF extension(output) = None
         THEN Panic                        \* extension().unwrap()
         ELSE probe(file_stem(output), extension(output), 1, fs)
    ELSE Ok(output)

-----------------------------------------------------------------------------
(* Save::client *)

\* the characters of a header name (RFC 7230 token) among those modelled
IsTokenChar(c) ==
    \/ \E i \in 1..Len(LOWER) : LOWER[i] = c \/ UPPER[i] = c
    \/ \E i \in 1..Len(DIGITS) : DIGITS[i] = c
    \/ c = "-"

\* str::parse::<HeaderName>: a non-empty token, stored in lower case
parse_header_name(s) ==
    IF s # <<>> /\ \A i \in 1..Len(s) : IsTokenChar(s[i])
    THEN to_lowercase(s)
    ELSE None

\* str::parse::<HeaderValue>: any text without control characters
parse_header_value(s) ==
    IF \A i \in 1..Len(s) : s[i] \notin {"\n", "\r"} THEN s ELSE None

\* str::parse::<Url>: an absolute URL, "<scheme>:..." with a scheme of
\* letters; text without such a scheme is refused
parse_url(s) ==
    LET scheme == split_next(s, ":") IN
    IF contains(s, ":") /\ scheme # <<>>
           /\ \A i \in 1..Len(scheme) :
                  \E k \in 1..Len(LOWER) : LOWER[k] = scheme[i] \/ UPPER[k] = scheme[i]
    THEN s
    ELSE None

\* HeaderMap::new and HeaderMap::insert: one value for a name
HeaderMap_new == [n \in {} |-> <<>>]
insert(map, k, v) == [n \in DOMAIN map \cup {k} |-> IF n = k THEN v ELSE map[n]]

Err == [kind |-> "err"]

RECURSIVE header_loop(_, _, _, _)
\* for i in (0..end).step_by(2) { headers.insert(header[i].parse()?,
\* header[i + 1].parse()?) }: the range is evaluated once, before the loop
header_loop(hdr, headers, i, end) ==
    IF i >= end THEN Ok(headers)
    ELSE IF parse_header_name(hdr[i + 1]) = None THEN Err
    ELSE IF parse_header_value(hdr[i + 2]) = None THEN Err
    ELSE header_loop(hdr,
                     insert(headers, parse_header_name(hdr[i + 1]),
                                     parse_header_value(hdr[i + 2])),
                     i + 2, end)

RECURSIVE cookie_loop(_, _, _)
\* for i in (0..set_cookie.len()).step_by(2) { cookie_jar.add_cookie_str(
\* &set_cookie[i], &set_cookie[i + 1].parse::<Url>()?) }
cookie_loop(cookies, jar, i) ==
    IF i >= Len(cookies) THEN Ok(jar)
    ELSE IF parse_url(cookies[i + 2]) = None THEN Err
    ELSE cookie_loop(cookies, jar \cup {<<cookies[i + 1], cookies[i + 2]>>}, i + 2)

\* the client: its default headers (Unset when default_headers is not
\* called) and its cookie jar.  The user agent and the proxy are passed to
\* the builder as given and are left out
Unset == <<"Unset">>

client(hdr, cookies) ==
    LET headers == HeaderMap_new
        \* the range of the loop is 0..headers.len(), the length of the
        \* map just created, not of self.header
        filled == IF hdr # <<>>
                  THEN header_loop(hdr, headers, 0, Cardinality(DOMAIN headers))
                  ELSE Ok(Unset)
        jar == cookie_loop(cookies, {}, 0)
    IN  IF filled.kind = "err" THEN Err
        ELSE IF jar.kind = "err" THEN Err
        ELSE [kind |-> "ok", default_headers |-> filled.val, cookie_jar |-> jar.val]

-----------------------------------------------------------------------------
(* quality_parser *)

U16_MAX == 65535

digit_value(c) == (CHOOSE i \in 1..Len(DIGITS) : DIGITS[i] = c) - 1
is_digit(c) == \E i \in 1..Len(DIGITS) : DIGITS[i] = c

\* Result<u16, ParseIntError>
Int16(n) == [ok |-> TRUE, val |-> n]
IntErr == [ok |-> FALSE, val |-> 0]

RECURSIVE parse_digits(_, _)
\* the accumulation of the digits with checked arithmetic: a value beyond
\* u16::MAX is an error
parse_digits(d, acc) ==
    IF d = <<>> THEN Int16(acc)
    ELSE IF acc * 10 + digit_value(Head(d)) > U16_MAX THEN IntErr
    ELSE parse_digits(Tail(d), acc * 10 + digit_value(Head(d)))

\* str::parse::<u16>: an optional '+', then one digit or more, no more than
\* u16::MAX
parse_u16(s) ==
    LET d == IF s # <<>> /\ Head(s) = "+" THEN Tail(s) ELSE s IN
    IF d = <<>> \/ \E i \in 1..Len(d) : ~is_digit(d[i]) THEN IntErr
    ELSE parse_digits(d, 0)

\* s.split(c).nth(1): the text between the first c and the next one (or
\* the end); None without a c
split_nth1(s, c) ==
    IF ~contains(s, c) THEN None
    ELSE split_next(SubSeq(s, first_index(s, c) + 1, Len(s)), c)

\* the literal arms of the match, "None" for a token that is none of them
literal_quality(x) ==
    CASE x = <<"l", "o", "w", "e", "s", "t">> -> "Lowest"
      [] x = <<"m", "i", "n">> -> "Lowest"
      [] x = <<"1", "4", "4", "p">> -> "Youtube144p"
      [] x = <<"2", "4", "0", "p">> -> "Youtube240p"
      [] x = <<"3", "6", "0", "p">> -> "Youtube360p"
      [] x = <<"4", "8", "0", "p">> -> "Youtube480p"
      [] x = <<"7", "2", "0", "p">> -> "Youtube720p"
      [] x = <<"h", "d">> -> "Youtube720p"
      [] x = <<"1", "0", "8", "0", "p">> -> "Youtube1080p"
      [] x = <<"f", "h", "d">> -> "Youtube1080p"
      [] x = <<"2", "k">> -> "Youtube2k"
      [] x = <<"1", "4", "4", "0", "p">> -> "Youtube1440p"
      [] x = <<"q", "h", "d">> -> "Youtube1440p"
      [] x = <<"4", "k">> -> "Youtube4k"
      [] x = <<"8", "k">> -> "Youtube8k"
      [] x = <<"h", "i", "g", "h", "e", "s", "t">> -> "Highest"
      [] x = <<"m", "a", "x">> -> "Highest"
      [] OTHER -> "None"

\* the literals that the message of the last arm lists, in its order
possible_values ==
    << <<"l", "o", "w", "e", "s", "t">>,
       <<"1", "4", "4", "p">>,
       <<"2", "4", "0", "p">>,
       <<"3", "6", "0", "p">>,
       <<"4", "8", "0", "p">>,
       <<"7", "2", "0", "p">>,
       <<"h", "d">>,
       <<"1", "0", "8", "0", "p">>,
       <<"f", "h", "d">>,
       <<"2", "k">>,
       <<"1", "4", "4", "0", "p">>,
       <<"q", "h", "d">>,
       <<"4", "k">>,
       <<"8", "k">>,
       <<"h", "i", "g", "h", "e", "s", "t">>,
       <<"m", "a", "x">> >>

ParseErr(msg) == [kind |-> "err", msg |-> msg]

\* Ok(Quality::Resolution(w, h))
Resolution(w, h) == [kind |-> "ok", val |-> "Resolution", w |-> w, h |-> h]

quality_parser(s) ==
    LET x == to_lowercase(s) IN
    IF literal_quality(x) # "None" THEN [kind |-> "ok", val |-> literal_quality(x)]
    ELSE IF contains(x, "x")
    THEN LET w == split_next(x, "x")      \* x.split('x').next()
             h == split_nth1(x, "x")      \* x.split('x').nth(1)
         IN
         IF w # None /\ h # None
         THEN IF ~parse_u16(w).ok THEN ParseErr("invalid width")
              ELSE IF ~parse_u16(h).ok THEN ParseErr("invalid height")
              ELSE Resolution(parse_u16(w).val, parse_u16(h).val)
         ELSE ParseErr("incorrect resolution format")
    ELSE [kind |-> "err", msg |-> "possible values", listed |-> possible_values]

-----------------------------------------------------------------------------
(* key_parser *)

BASE64 == <<"b", "a", "s", "e", "6", "4">>
BASE64_COLON == <<"b", "a", "s", "e", "6", "4", ":">>

\* the alphabet of standard base64, in the order of its values 0..63
B64_ALPHABET == UPPER \o LOWER \o DIGITS \o <<"+", "/">>

\* conv_ascii2bin of EVP_DecodeBlock: the value of a base64 character, 0
\* for the padding '='; every other character is refused
is_b64_char(c) == c = "=" \/ \E i \in 1..Len(B64_ALPHABET) : B64_ALPHABET[i] = c
b64_value(c) ==
    IF c = "=" THEN 0
    ELSE (CHOOSE i \in 1..Len(B64_ALPHABET) : B64_ALPHABET[i] = c) - 1

\* str::trim: the white space at both ends removed
RECURSIVE trim(_)
trim(s) ==
    IF s # <<>> /\ Head(s) \in {" ", "\t", "\n", "\r"} THEN trim(Tail(s))
    ELSE IF s # <<>> /\ s[Len(s)] \in {" ", "\t", "\n", "\r"}
    THEN trim(SubSeq(s, 1, Len(s) - 1))
    ELSE s

\* EVP_DecodeBlock drops, while more than three characters are left, the
\* trailing characters that end a line or the data: white space and '-'
RECURSIVE strip_line_end(_)
strip_line_end(s) ==
    IF Len(s) > 3 /\ s[Len(s)] \in {" ", "\t", "\n", "\r", "-"}
    THEN strip_line_end(SubSeq(s, 1, Len(s) - 1))
    ELSE s

RECURSIVE decode_quads(_)
\* three bytes for every four characters
decode_quads(s) ==
    IF s = <<>> THEN <<>>
    ELSE LET l == b64_value(s[1]) * 262144 + b64_value(s[2]) * 4096
                      + b64_value(s[3]) * 64 + b64_value(s[4]) IN
         <<l \div 65536, (l \div 256) % 256, l % 256>>
             \o decode_quads(SubSeq(s, 5, Len(s)))

\* openssl::base64::decode_block: the bytes, or an error for text that is
\* not whole groups of four base64 characters; one byte is dropped for a
\* final '=' and one more for a final "=="
decode_block(text) ==
    LET src == trim(text)
        f == strip_line_end(src) IN
    IF src = <<>> THEN Ok(<<>>)
    ELSE IF Len(f) % 4 # 0 \/ \E i \in 1..Len(f) : ~is_b64_char(f[i]) THEN Err
    ELSE LET out == decode_quads(f)
             pad == IF ends_with(src, <<"=", "=">>) THEN 2
                    ELSE IF ends_with(src, <<"=">>) THEN 1 ELSE 0 IN
         Ok(SubSeq(out, 1, Len(out) - pad))

HEX_DIGITS == DIGITS \o <<"A", "B", "C", "D", "E", "F">>

RECURSIVE strip_zero_bytes(_)
\* BigNum::from_slice: the number that the big-endian bytes write, which
\* keeps no trace of leading zero bytes
strip_zero_bytes(bytes) ==
    IF bytes # <<>> /\ Head(bytes) = 0 THEN strip_zero_bytes(Tail(bytes)) ELSE bytes

RECURSIVE hex_of_bytes(_)
hex_of_bytes(bytes) ==
    IF bytes = <<>> THEN <<>>
    ELSE <<HEX_DIGITS[(Head(bytes) \div 16) + 1], HEX_DIGITS[(Head(bytes) % 16) + 1]>>
             \o hex_of_bytes(Tail(bytes))

\* BigNum::from_slice(bytes).to_hex_str(): two upper-case digits for every
\* byte of the number, "0" for zero
bignum_hex(bytes) ==
    IF strip_zero_bytes(bytes) = <<>> THEN <<"0">>
    ELSE hex_of_bytes(strip_zero_bytes(bytes))

\* the first statement: the key id and the key material of the token
key_split(s) ==
    IF contains(s, ":") /\ ~starts_with(s, BASE64)
    THEN LET kid == split_next(s, ":") IN
         [kid |-> to_lowercase(remove_char(kid, "-")),
          key |-> trim_start_matches(trim_start_matches(s, kid), <<":">>)]
    ELSE [kid |-> None, key |-> s]

key_parser(s) ==
    LET key == key_split(s) IN
    IF starts_with(key.key, BASE64_COLON)
    THEN LET bytes == decode_block(trim_start_matches(key.key, BASE64_COLON)) IN
         IF bytes.kind = "err" THEN Err
         ELSE [kind |-> "ok", kid |-> key.kid,
               key |-> to_lowercase(bignum_hex(bytes.val))]
    ELSE [kind |-> "ok", kid |-> key.kid, key |-> key.key]

-----------------------------------------------------------------------------
(* The inputs: every concatenation of at most MaxPieces pieces. *)

InputPieces ==
    { HTTP, <<"/">>, <<"?">>, <<"a">>, <<".">>, <<".", "t", "s">>,
      DOT_M3U8, DOT_M3U, DOT_MPD, DOT_XML,
      <<"<", ">", ":", "\"", "\\", "|">> }

RECURSIVE Concats(_, _)
Concats(pieces, n) ==
    IF n = 0 THEN {<<>>}
    ELSE LET shorter == Concats(pieces, n - 1) IN
         shorter \cup {s \o p : s \in shorter, p \in pieces}

\* the inputs of at most n pieces.  clap requires the input, and
\* input_validator of args/save.rs refuses only the youtube URLs, which no
\* concatenation of these pieces is
Inputs(n) == Concats(InputPieces, n) \ {<<>>}

\* the working directories that matter to tempfile: any of the computed
\* name and its first MaxCopies copies may exist
FileSystems(inp) ==
    LET output == tempfile(inp)
        copies == IF file_stem(output) = None \/ extension(output) = None
                  THEN {}
                  ELSE {core_file_copy(file_stem(output), i, extension(output)) :
                            i \in 1..MaxCopies}
    IN  SUBSET (({output} \cup copies) \ {<<>>, <<".">>, <<".", ".">>})

-----------------------------------------------------------------------------
(* The callers: one call of a method on a Save built from the arguments. *)

NoRet == [fn |-> "none"]

\* the local `client` of to_download_state before it is bound
NoClient == [kind |-> "unset"]

InitInput ==
    /\ input \in Inputs(MaxPieces)
    /\ resume = FALSE
    /\ files = {}
    /\ header = <<>>
    /\ set_cookie = <<>>
    /\ token = <<>>
    /\ baseurl = None
    /\ uri = <<>>
    /\ the_client = NoClient
    /\ links = <<>>
    /\ io = <<>>
    /\ pc = "args"
    /\ ret = NoRet

CallInputType ==
    /\ pc = "args"
    /\ ret' = [fn |-> "input_type", val |-> input_type(input)]
    /\ pc' = "done"
    /\ UNCHANGED <<input, resume, files, header, set_cookie, token,
                 baseurl, uri, the_client, links, io>>

CallTempfile ==
    /\ pc = "args"
    /\ ret' = [fn |-> "tempfile", val |-> tempfile(input)]
    /\ pc' = "done"
    /\ UNCHANGED <<input, resume, files, header, set_cookie, token,
                 baseurl, uri, the_client, links, io>>

NextInput == CallInputType \/ CallTempfile

SpecInput == InitInput /\ [][NextInput]_vars

InitArgs ==
    /\ input \in Inputs(MaxArgsPieces)
    /\ resume \in BOOLEAN
    /\ files \in FileSystems(input)
    /\ header = <<>>
    /\ set_cookie = <<>>
    /\ token = <<>>
    /\ baseurl = None
    /\ uri = <<>>
    /\ the_client = NoClient
    /\ links = <<>>
    /\ io = <<>>
    /\ pc = "args"
    /\ ret = NoRet

CallTempfileArgs ==
    /\ pc = "args"
    /\ ret' = [fn |-> "tempfile_args"] @@ tempfile_args(input, resume, files)
    /\ pc' = "done"
    /\ UNCHANGED <<input, resume, files, header, set_cookie, token,
                 baseurl, uri, the_client, links, io>>

NextArgs == CallTempfileArgs

SpecArgs == InitArgs /\ [][NextArgs]_vars

\* the strings of a --header or --set-cookie option
HeaderStrings ==
    { <<"A">>, <<"x", "-", "i", "d">>, <<"b", " ", "c">>, <<"\n">>, <<>> }

CookieStrings == { <<"c", "=", "1">>, <<"h", ":", "/", "/", "h">> }

RECURSIVE PairLists(_, _)
\* the lists clap builds from at most n options of two values each
PairLists(strings, n) ==
    IF n = 0 THEN {<<>>}
    ELSE LET shorter == PairLists(strings, n - 1) IN
         shorter \cup {l \o <<k, v>> : l \in shorter, k \in strings, v \in strings}

InitClient ==
    /\ input = <<"a">>
    /\ resume = FALSE
    /\ files = {}
    /\ header \in PairLists(HeaderStrings, MaxHeaderPairs)
    /\ set_cookie \in PairLists(CookieStrings, 1)
    /\ token = <<>>
    /\ baseurl = None
    /\ uri = <<>>
    /\ the_client = NoClient
    /\ links = <<>>
    /\ io = <<>>
    /\ pc = "args"
    /\ ret = NoRet

CallClient ==
    /\ pc = "args"
    /\ ret' = [fn |-> "client"] @@ client(header, set_cookie)
    /\ pc' = "done"
    /\ UNCHANGED <<input, resume, files, header, set_cookie, token,
                 baseurl, uri, the_client, links, io>>

NextClient == CallClient

SpecClient == InitClient /\ [][NextClient]_vars

\* the values of --quality: every concatenation of at most
\* MaxQualityPieces pieces
QualityPieces ==
    { <<"1">>,
      <<"1", "9", "2", "0">>,
      <<"1", "0", "8", "0">>,
      <<"6", "5", "5", "3", "5">>,
      <<"6", "5", "5", "3", "6">>,
      <<"x">>,
      <<"X">>,
      <<"+">>,
      <<"h", "d">>,
      <<"M", "I", "N">>,
      <<"m", "a", "x">>,
      <<"b", "o", "g", "u", "s">> }

InitQuality ==
    /\ input = <<"a">>
    /\ resume = FALSE
    /\ files = {}
    /\ header = <<>>
    /\ set_cookie = <<>>
    /\ token \in Concats(QualityPieces, MaxQualityPieces)
    /\ baseurl = None
    /\ uri = <<>>
    /\ the_client = NoClient
    /\ links = <<>>
    /\ io = <<>>
    /\ pc = "args"
    /\ ret = NoRet

CallQualityParser ==
    /\ pc = "args"
    /\ ret' = [fn |-> "quality_parser"] @@ quality_parser(token)
    /\ pc' = "done"
    /\ UNCHANGED <<input, resume, files, header, set_cookie, token,
                 baseurl, uri, the_client, links, io>>

NextQuality == CallQualityParser

SpecQuality == InitQuality /\ [][NextQuality]_vars

\* the values of --key: every concatenation of at most MaxKeyPieces pieces
KeyPieces ==
    { <<"a", "b">>,
      <<"C", "D">>,
      <<"-">>,
      <<":">>,
      <<"b", "a", "s", "e", "6", "4">>,
      <<"A", "A", "A", "A">>,
      <<"/", "w">>,
      <<"=">> }

InitKey ==
    /\ input = <<"a">>
    /\ resume = FALSE
    /\ files = {}
    /\ header = <<>>
    /\ set_cookie = <<>>
    /\ token \in Concats(KeyPieces, MaxKeyPieces)
    /\ baseurl = None
    /\ uri = <<>>
    /\ the_client = NoClient
    /\ links = <<>>
    /\ io = <<>>
    /\ pc = "args"
    /\ ret = NoRet

CallKeyParser ==
    /\ pc = "args"
    /\ ret' = [fn |-> "key_parser"] @@ key_parser(token)
    /\ pc' = "done"
    /\ UNCHANGED <<input, resume, files, header, set_cookie, token,
                 baseurl, uri, the_client, links, io>>

NextKey == CallKeyParser

SpecKey == InitKey /\ [][NextKey]_vars

-----------------------------------------------------------------------------
(* Save::to_download_state, one statement at a time.  The page, the scraper *)
(* and the prompt are outside the two files: find_hls_dash_links and select *)
(* are taken at their contract (an ordered list without duplicates; the     *)
(* index of the chosen line, or a failure).                                 *)

\* the links a page may hold: a playlist, a manifest, a link whose suffix is
\* in its query string (input_type calls it a website) and one that is not
\* an http link
ScrapedLinks ==
    { HTTP \o <<"/", "a">> \o DOT_M3U8,
      HTTP \o <<"/", "a">> \o DOT_MPD,
      HTTP \o <<"/", "a", "?">> \o DOT_M3U8,
      <<"f", "t", "p", "/", "a">> \o DOT_M3U8 }

\* crate::utils::find_hls_dash_links on any page: the lists of at most n
\* links, in page order, each link once
find_hls_dash_links(n) ==
    {l \in UNION {[1..k -> ScrapedLinks] : k \in 0..n} :
        \A i, j \in 1..Len(l) : i # j => l[i] # l[j]}

\* crate::utils::select(prompt, choices, raw_prompts)?: the 0-based index of
\* the line the user chose, or a failure of the terminal
select(choices) ==
    {Err} \cup {[kind |-> "ok", val |-> i] : i \in 0..(Len(choices) - 1)}

\* format!("{:2}", n): right-aligned in two columns
pad2(n) == IF n < 10 THEN <<" ">> \o decimal(n) ELSE decimal(n)

\* for (i, link) in links.iter().enumerate()
\*     { elinks.push(format!("{:2}) {}", i + 1, link)) }
enumerate_links(ls) == [k \in 1..Len(ls) |-> pad2(k) \o <<")", " ">> \o ls[k]]

\* one thing the run did: "client" (self.client() is called), "println",
\* "GET" (the request), "select" (the prompt) and "chosen" (its answer)
Event(ev, arg) == [ev |-> ev, arg |-> arg]

SCRAPING == <<"Scraping", " website for HLS and DASH stream links.">>
FOUND == <<"Found", " ">>

\* how the run ends
Failure(why) == [fn |-> "to_download_state", kind |-> "err", why |-> why]
DownloadState(args_input, c) ==
    [fn |-> "to_download_state", kind |-> "ok", args_input |-> args_input,
     client |-> c, dash |-> FALSE, cenc_encrypted_audio |-> FALSE,
     cenc_encrypted_video |-> FALSE]

\* let client = self.client()?;
StateClient ==
    /\ pc = "args"
    /\ io' = Append(io, Event("client", <<>>))
    /\ LET c == client(header, set_cookie) IN
       IF c.kind = "err"
       THEN /\ ret' = Failure("client")
            /\ pc' = "done"
            /\ UNCHANGED the_client
       ELSE /\ the_client' = c
            /\ pc' = "classify"
            /\ UNCHANGED ret
    /\ UNCHANGED <<input, resume, files, header, set_cookie, token, baseurl, uri, links>>

\* if self.input_type().is_website(): the test is false
StateNotWebsite ==
    /\ pc = "classify"
    /\ input_type(input) # "Website"
    /\ pc' = "assemble"
    /\ UNCHANGED <<input, resume, files, header, set_cookie, token, baseurl, uri,
                   the_client, links, io, ret>>

\* the test is true: the notice, client.get(&self.input).send()?.text()?
\* and find_hls_dash_links on the text
StateScrape ==
    /\ pc = "classify"
    /\ input_type(input) = "Website"
    /\ io' = io \o <<Event("println", SCRAPING), Event("GET", input)>>
    /\ \/ /\ ret' = Failure("request")
          /\ pc' = "done"
          /\ UNCHANGED links
       \/ /\ links' \in find_hls_dash_links(MaxLinks)
          /\ pc' = "match"
          /\ UNCHANGED ret
    /\ UNCHANGED <<input, resume, files, header, set_cookie, token, baseurl, uri,
                   the_client>>

\* 0 => bail!(crate::utils::scrape_website_message(&self.input))
StateNoLinks ==
    /\ pc = "match"
    /\ Len(links) = 0
    /\ ret' = Failure("scrape_website_message")
    /\ pc' = "done"
    /\ UNCHANGED <<input, resume, files, header, set_cookie, token, baseurl, uri,
                   the_client, links, io>>

\* the arm for one link merged into the arm for many: the only link is
\* offered in a prompt
StateOneLink_prompting ==
    /\ pc = "match"
    /\ Len(links) = 1
    /\ input' = links[1]
    /\ io' = io \o <<Event("select", enumerate_links(links)), Event("chosen", <<0>>)>>
    /\ pc' = "assemble"
    /\ UNCHANGED <<resume, files, header, set_cookie, token, baseurl, uri,
                   the_client, links, ret>>

\* the link found is classified again, as if the test on input_type were
\* the head of a loop
StateOneLink_classified_again ==
    /\ pc = "match"
    /\ Len(links) = 1
    /\ input' = links[1]
    /\ io' = Append(io, Event("println", FOUND \o links[1]))
    /\ pc' = "classify"
    /\ UNCHANGED <<resume, files, header, set_cookie, token, baseurl, uri,
                   the_client, links, ret>>

\* 1 => { self.input = links[0].clone(); println!("{} {}", "Found", &links[0]) }
StateOneLink ==
    /\ pc = "match"
    /\ Len(links) = 1
    /\ input' = links[1]
    /\ io' = Append(io, Event("println", FOUND \o links[1]))
    /\ pc' = "assemble"
    /\ UNCHANGED <<resume, files, header, set_cookie, token, baseurl, uri,
                   the_client, links, ret>>

\* _ => { elinks; let index = select(.., &elinks, ..)?; self.input = links[index].clone() }
StateSelect ==
    /\ pc = "match"
    /\ Len(links) >= 2
    /\ \E index \in select(enumerate_links(links)) :
           IF index.kind = "err"
           THEN /\ io' = Append(io, Event("select", enumerate_links(links)))
                /\ ret' = Failure("select")
                /\ pc' = "done"
                /\ UNCHANGED input
           ELSE /\ io' = io \o <<Event("select", enumerate_links(links)),
                                 Event("chosen", <<index.val>>)>>
                /\ input' = links[index.val + 1]
                /\ pc' = "assemble"
                /\ UNCHANGED ret
    /\ UNCHANGED <<resume, files, header, set_cookie, token, baseurl, uri,
                   the_client, links>>

\* Ok(DownloadState { args: self, client, dash: false, .. })
StateOk ==
    /\ pc = "assemble"
    /\ ret' = DownloadState(input, the_client)
    /\ pc' = "done"
    /\ UNCHANGED <<input, resume, files, header, set_cookie, token, baseurl, uri,
                   the_client, links, io>>

InitState ==
    /\ input \in Inputs(MaxStatePieces)
    /\ resume = FALSE
    /\ files = {}
    /\ header = <<>>
    /\ set_cookie \in PairLists(CookieStrings, 1)
    /\ token = <<>>
    /\ baseurl = None
    /\ uri = <<>>
    /\ the_client = NoClient
    /\ links = <<>>
    /\ io = <<>>
    /\ pc = "args"
    /\ ret = NoRet

NextState ==
    \/ StateClient
    \/ StateNotWebsite
    \/ StateScrape
    \/ StateNoLinks
    \/ StateOneLink
    \/ StateSelect
    \/ StateOk

SpecState == InitState /\ [][NextState]_vars

-----------------------------------------------------------------------------
(* Save::get_url (the same text in both files) and the part of reqwest::Url *)
(* it uses.  A Url is its scheme, its host, the segments of its path and    *)
(* its query; the schemes of the model are of the special kind (http), and  *)
(* no text of the model holds a port, a user, a fragment or a character     *)
(* that is percent-encoded.                                                 *)

RECURSIVE split_all(_, _)
\* str::split_all(c): the texts between the c's
split_all(s, c) ==
    IF ~contains(s, c) THEN <<s>>
    ELSE <<split_next(s, c)>> \o split_all(SubSeq(s, first_index(s, c) + 1, Len(s)), c)

\* the text after the first c, None without a c
after_first(s, c) ==
    IF contains(s, c) THEN SubSeq(s, first_index(s, c) + 1, Len(s)) ELSE None

RECURSIVE path_state(_, _)
\* the path state of the URL parser: a segment is pushed, "." pushes
\* nothing, ".." drops the last segment pushed, and "." or ".." in the last
\* place leaves an empty segment
path_state(out, segs) ==
    IF segs = <<>> THEN out
    ELSE LET seg == Head(segs)
             closing == IF Len(segs) = 1 THEN << <<>> >> ELSE <<>> IN
         IF seg = <<".", ".">>
         THEN path_state(SubSeq(out, 1, Len(out) - 1) \o closing, Tail(segs))
         ELSE IF seg = <<".">>
         THEN path_state(out \o closing, Tail(segs))
         ELSE path_state(Append(out, seg), Tail(segs))

\* the segments of the path text "/a/b" (or "a/b") pushed after out
push_path(out, text) ==
    path_state(out, split_all(IF starts_with(text, <<"/">>)
                          THEN SubSeq(text, 2, Len(text)) ELSE text, "/"))

UrlErr(msg) == [kind |-> "err", msg |-> <<msg>>]

\* Url::parse: "<scheme>:" of letters, any '/' after it, a host that is
\* not empty, the path (at least "/") and the query
Url_parse(s) ==
    LET scheme == split_next(s, ":") IN
    IF parse_url(s) = None THEN UrlErr("relative URL without a base")
    ELSE LET rest == trim_start_matches(SubSeq(s, Len(scheme) + 2, Len(s)), <<"/">>)
             before_query == split_next(rest, "?")
             host == split_next(before_query, "/") IN
         IF host = <<>> THEN UrlErr("empty host")
         ELSE [kind |-> "ok",
               scheme |-> to_lowercase(scheme),
               host |-> to_lowercase(host),
               path |-> push_path(<<>>, SubSeq(before_query, Len(host) + 1,
                                                Len(before_query))),
               query |-> after_first(rest, "?")]

\* Url::join: the reference is parsed with the Url as its base
Url_join(base, reference) ==
    IF Url_parse(reference).kind = "ok" THEN Url_parse(reference)
    ELSE IF reference = <<>> THEN base
    ELSE IF starts_with(reference, <<"/", "/">>)
    THEN Url_parse(base.scheme \o <<":">> \o reference)
    ELSE IF Head(reference) = "?"
    THEN [base EXCEPT !.query = Tail(reference)]
    ELSE IF Head(reference) = "/"
    THEN [base EXCEPT !.path = push_path(<<>>, split_next(reference, "?")),
                      !.query = after_first(reference, "?")]
    ELSE [base EXCEPT !.path = push_path(SubSeq(base.path, 1, Len(base.path) - 1),
                                         split_next(reference, "?")),
                      !.query = after_first(reference, "?")]

RECURSIVE join_segments(_)
join_segments(segs) ==
    IF segs = <<>> THEN <<>>
    ELSE <<"/">> \o Head(segs) \o join_segments(Tail(segs))

\* Url::to_string
Url_to_string(u) ==
    u.scheme \o <<":", "/", "/">> \o u.host \o join_segments(u.path)
        \o (IF u.query = None THEN <<>> ELSE <<"?">> \o u.query)

\* Ok(Url::parse(base)?.join(uri)?.to_string())
parse_join(base, u) ==
    LET parsed == Url_parse(base) IN
    IF parsed.kind = "err" THEN parsed
    ELSE LET joined == Url_join(parsed, u) IN
         IF joined.kind = "err" THEN joined ELSE Ok(Url_to_string(joined))

\* bail!("Non HTTP input should have {} set explicitly.", "--baseurl")
NON_HTTP_INPUT ==
    [kind |-> "err",
     msg |-> <<"Non HTTP input should have ", "--baseurl", " set explicitly.">>]

\* get_url with the two sources of a base in the other order: the input is
\* used whenever it starts with "http", the baseurl only otherwise
get_url_input_first(inp, base, u) ==
    IF starts_with(u, HTTP) THEN Ok(u)
    ELSE IF starts_with(inp, HTTP) THEN parse_join(inp, u)
    ELSE IF base # None THEN parse_join(base, u)
    ELSE NON_HTTP_INPUT

get_url(inp, base, u) ==
    IF starts_with(u, HTTP) THEN Ok(u)
    ELSE IF base # None THEN parse_join(base, u)
    ELSE IF ~starts_with(inp, HTTP) THEN NON_HTTP_INPUT
    ELSE parse_join(inp, u)

\* the inputs and base URLs: nothing, "http" or "http://h", then at most n
\* pieces of a path and a query
UrlPieces == { <<"/">>, <<"d">>, <<"d", "/">>, <<"f">>, <<"?", "q">> }
UrlTexts(n) ==
    {head \o tail : head \in {<<>>, HTTP, HTTP \o <<":", "/", "/", "h">>},
                    tail \in Concats(UrlPieces, n)}

\* the references: at most n of these pieces
UriPieces == { <<"/">>, <<"s">>, <<".", ".">>, <<".">>, <<"?", "k">>, HTTP }

InitUrl ==
    /\ baseurl \in {None} \cup UrlTexts(MaxUrlPieces)
    /\ input \in IF baseurl = None
                 THEN UrlTexts(MaxUrlPieces) \ {<<>>}
                 ELSE {<<"d">>, HTTP \o <<":", "/", "/", "h", "/", "d">>}
    /\ uri \in Concats(UriPieces, MaxUriPieces)
    /\ resume = FALSE
    /\ files = {}
    /\ header = <<>>
    /\ set_cookie = <<>>
    /\ token = <<>>
    /\ the_client = NoClient
    /\ links = <<>>
    /\ io = <<>>
    /\ pc = "args"
    /\ ret = NoRet

CallGetUrl ==
    /\ pc = "args"
    /\ ret' = [fn |-> "get_url"] @@ get_url(input, baseurl, uri)
    /\ pc' = "done"
    /\ UNCHANGED <<input, resume, files, header, set_cookie, token,
                   baseurl, uri, the_client, links, io>>

NextUrl == CallGetUrl

SpecUrl == InitUrl /\ [][NextUrl]_vars

-----------------------------------------------------------------------------
(* What the claims speak of, stated apart from the code's own helpers. *)

\* s with everything from its first '?' dropped: its longest prefix without '?'
QueryStripped(s) ==
    LET n == CHOOSE k \in 0..Len(s) :
                 /\ \A i \in 1..k : s[i] # "?"
                 /\ k = Len(s) \/ s[k + 1] = "?"
    IN  SubSeq(s, 1, n)

\* the final path segment: the longest suffix of QueryStripped(s) without '/'
FinalSegment(s) ==
    LET q == QueryStripped(s)
        n == CHOOSE k \in 0..Len(q) :
                 /\ \A i \in (k + 1)..Len(q) : q[i] # "/"
                 /\ k = 0 \/ q[k] = "/"
    IN  SubSeq(q, n + 1, Len(q))

\* s without its last n characters
DropLast(s, n) == SubSeq(s, 1, Len(s) - n)

IsPlaylist(seg) == ends_with(seg, DOT_M3U) \/ ends_with(seg, DOT_M3U8)
IsManifest(seg) == ends_with(seg, DOT_MPD) \/ ends_with(seg, DOT_XML)

\* the part of a playlist or manifest segment before its suffix
BeforeSuffix(seg) ==
    IF ends_with(seg, DOT_M3U8) THEN DropLast(seg, Len(DOT_M3U8))
    ELSE IF ends_with(seg, DOT_M3U) THEN DropLast(seg, Len(DOT_M3U))
    ELSE IF ends_with(seg, DOT_MPD) THEN DropLast(seg, Len(DOT_MPD))
    ELSE IF ends_with(seg, DOT_XML) THEN DropLast(seg, Len(DOT_XML))
    ELSE seg

ReturnedBy(fn) == pc = "done" /\ ret.fn = fn

-----------------------------------------------------------------------------
(* C1 *)

\* the pairs (k_i, v_i) of the header list
HeaderPairs == {i \in 1..Len(header) : i % 2 = 1}

PairParses(i) ==
    parse_header_name(header[i]) # None /\ parse_header_value(header[i + 1]) # None

\* C1: with a non-empty header list, a client that is built has every
\* parseable pair among its default headers, and a list with an
\* unparseable name or value gives a construction failure, not a client.
C1_HeadersInstalled ==
    (ReturnedBy("client") /\ header # <<>>) =>
        /\ ret.kind = "ok" =>
               /\ ret.default_headers # Unset
               /\ \A i \in HeaderPairs :
                      PairParses(i) =>
                          /\ parse_header_name(header[i]) \in DOMAIN ret.default_headers
                          /\ \E j \in HeaderPairs :
                                 /\ parse_header_name(header[j]) = parse_header_name(header[i])
                                 /\ ret.default_headers[parse_header_name(header[i])]
                                        = parse_header_value(header[j + 1])
        /\ (\E i \in HeaderPairs : ~PairParses(i)) => ret.kind = "err"

-----------------------------------------------------------------------------
(* C2 *)

\* the class the claim gives an input: the suffix class of the truncated
\* input, the URL or local-file variant by the input's own "http" prefix
Classified(inp) ==
    LET t == QueryStripped(inp)
        url == starts_with(inp, HTTP) IN
    IF ends_with(t, DOT_M3U) \/ ends_with(t, DOT_M3U8)
    THEN IF url THEN "HlsUrl" ELSE "HlsLocalFile"
    ELSE IF ends_with(t, DOT_MPD) \/ ends_with(t, DOT_XML)
    THEN IF url THEN "DashUrl" ELSE "DashLocalFile"
    ELSE IF url THEN "Website" ELSE "LocalFile"

InputTypes ==
    {"HlsUrl", "DashUrl", "Website", "HlsLocalFile", "DashLocalFile", "LocalFile"}

\* C2: input_type always returns one of the six variants, the one the
\* suffix of the input truncated at its first '?' and the "http" prefix of
\* the input select (playlist before manifest before the rest), and it is
\* the type of the truncated input: a query string never changes the result.
C2_InputTypeOnTruncatedInput ==
    ReturnedBy("input_type") =>
        /\ ret.val \in InputTypes
        /\ ret.val = Classified(input)
        /\ ret.val = Classified(QueryStripped(input))

\* a URL of a playlist with a query string that itself ends in a manifest suffix
C2_Witness ==
    /\ ReturnedBy("input_type")
    /\ starts_with(input, HTTP)
    /\ contains(input, "?")
    /\ ends_with(QueryStripped(input), DOT_M3U8)
    /\ ends_with(input, DOT_MPD)
    /\ ret.val = "HlsUrl"

-----------------------------------------------------------------------------
(* C3 *)

\* C3 as stated: a playlist segment ending in .ts.m3u8 loses only .m3u8;
\* any other playlist segment keeps the part before its playlist suffix and
\* gets .ts in place of the suffix.
C3_PlaylistRuleAsStated ==
    (ReturnedBy("tempfile") /\ IsPlaylist(FinalSegment(input))) =>
        LET seg == FinalSegment(input) IN
        ret.val = IF ends_with(seg, DOT_TS_M3U8)
                  THEN DropLast(seg, Len(DOT_M3U8))
                  ELSE BeforeSuffix(seg) \o <<".">> \o EXT_TS

\* C3, amended: as stated when something precedes the playlist suffix; a
\* segment that is only the suffix (.m3u8, .m3u) has no extension to
\* replace and gets .ts appended (.m3u8 -> .m3u8.ts).
C3_PlaylistRule ==
    (ReturnedBy("tempfile") /\ IsPlaylist(FinalSegment(input))) =>
        LET seg == FinalSegment(input) IN
        ret.val = IF ends_with(seg, DOT_TS_M3U8)
                  THEN DropLast(seg, Len(DOT_M3U8))
                  ELSE IF BeforeSuffix(seg) = <<>>
                  THEN seg \o <<".">> \o EXT_TS
                  ELSE BeforeSuffix(seg) \o <<".">> \o EXT_TS

\* movie.ts.m3u8 behind a path: the compound suffix keeps its .ts
C3_Witness ==
    /\ ReturnedBy("tempfile")
    /\ contains(input, "/")
    /\ ends_with(FinalSegment(input), <<"a">> \o DOT_TS_M3U8)
    /\ ret.val = DropLast(FinalSegment(input), Len(DOT_M3U8))

-----------------------------------------------------------------------------
(* C4 *)

\* C4 as stated: a manifest segment gets .m4s in place of its suffix, and
\* neither the query string nor a leading path component is in the result.
C4_ManifestRuleAsStated ==
    (ReturnedBy("tempfile") /\ ~IsPlaylist(FinalSegment(input))
         /\ IsManifest(FinalSegment(input))) =>
        /\ ret.val = BeforeSuffix(FinalSegment(input)) \o <<".">> \o EXT_M4S
        /\ ~contains(ret.val, "?")
        /\ ~contains(ret.val, "/")

\* C4, amended: as stated when something precedes the manifest suffix; a
\* segment that is only the suffix (.mpd, .xml) gets .m4s appended.
C4_ManifestRule ==
    (ReturnedBy("tempfile") /\ ~IsPlaylist(FinalSegment(input))
         /\ IsManifest(FinalSegment(input))) =>
        LET seg == FinalSegment(input) IN
        /\ ret.val = IF BeforeSuffix(seg) = <<>>
                     THEN seg \o <<".">> \o EXT_M4S
                     ELSE BeforeSuffix(seg) \o <<".">> \o EXT_M4S
        /\ ~contains(ret.val, "?")
        /\ ~contains(ret.val, "/")

\* manifest.mpd?token=1 behind a path
C4_Witness ==
    /\ ReturnedBy("tempfile")
    /\ contains(QueryStripped(input), "/")
    /\ contains(input, "?")
    /\ FinalSegment(input) = <<"a">> \o DOT_MPD
    /\ ret.val = <<"a", ".">> \o EXT_M4S

-----------------------------------------------------------------------------
(* C5 *)

Forbidden == {"<", ">", ":", "\"", "/", "\\", "|", "?"}

\* C5: a segment that is neither playlist nor manifest gives a name with
\* none of the characters < > : " / \ | ? and with the extension .mp4.
C5_FallbackRule ==
    (ReturnedBy("tempfile") /\ ~IsPlaylist(FinalSegment(input))
         /\ ~IsManifest(FinalSegment(input))) =>
        /\ \A c \in Forbidden : ~contains(ret.val, c)
        /\ ends_with(ret.val, <<".">> \o EXT_MP4)

-----------------------------------------------------------------------------
(* C6 *)

\* the name before its last '.', and the name after it
StemOf(name) == SubSeq(name, 1, last_index(name, ".") - 1)
ExtOf(name) == SubSeq(name, last_index(name, ".") + 1, Len(name))

\* a name of the form <stem>.<ext>: a '.' after a first character
HasStemAndExt(name) == last_index(name, ".") > 1 /\ name # <<".", ".">>

\* "<stem> (n).<ext>"
CopyName(name, n) ==
    StemOf(name) \o <<" ", "(">> \o decimal(n) \o <<")", ".">> \o ExtOf(name)

\* C6: not resuming, with a file at the computed name <stem>.<ext>, tempfile
\* returns "<stem> (n).<ext>" for the smallest n >= 1 that names no existing
\* file; resuming, or with no file at the computed name, it returns the
\* computed name; a name returned when not resuming never exists.
C6_CollisionPolicy ==
    ReturnedBy("tempfile_args") =>
        LET computed == tempfile(input) IN
        /\ (resume \/ ~exists(computed, files))
               => (ret.kind = "ok" /\ ret.val = computed)
        /\ (~resume /\ computed \in files /\ HasStemAndExt(computed))
               => /\ ret.kind = "ok"
                  /\ \E n \in 1..(Cardinality(files) + 1) :
                         /\ ret.val = CopyName(computed, n)
                         /\ \A m \in 1..(n - 1) : CopyName(computed, m) \in files
        /\ (ret.kind = "ok" /\ ~resume) => ret.val \notin files

\* clip.mp4 and clip (1).mp4 exist: clip (2).mp4 is returned
C6_Witness ==
    /\ ReturnedBy("tempfile_args")
    /\ ~resume
    /\ tempfile(input) = <<"a", ".", "m", "p", "4">>
    /\ files = {tempfile(input), CopyName(tempfile(input), 1)}
    /\ ret.val = <<"a", " ", "(", "2", ")", ".", "m", "p", "4">>

-----------------------------------------------------------------------------
(* C7 *)

\* C7: tempfile returns a path for every input, every working directory
\* and either value of resume: it never panics.
C7_TempfileTotal ==
    ReturnedBy("tempfile_args") => ret.kind = "ok"

-----------------------------------------------------------------------------
(* C8 *)

\* the text after the first c of s
AfterFirst(s, c) == SubSeq(s, first_index(s, c) + 1, Len(s))

\* a token that is no literal and holds an 'x' once in lower case
IsResolutionToken(s) ==
    literal_quality(to_lowercase(s)) = "None" /\ contains(to_lowercase(s), "x")

\* C8: a token that is no literal and holds an 'x' gives Resolution(w, h)
\* exactly when all the text before its first 'x' is an integer w of
\* 0..65535 and all the text after its first 'x' is an integer h of
\* 0..65535; otherwise a failure that names the half that failed.
C8_ResolutionRule ==
    (ReturnedBy("quality_parser") /\ IsResolutionToken(token)) =>
        LET x == to_lowercase(token)
            w == parse_u16(split_next(x, "x"))
            h == parse_u16(AfterFirst(x, "x")) IN
        IF w.ok /\ h.ok
        THEN ret.kind = "ok" /\ ret.val = "Resolution" /\ ret.w = w.val /\ ret.h = h.val
        ELSE ret.kind = "err" /\ ret.msg \in {"invalid width", "invalid height"}
                 /\ (ret.msg = "invalid width" => ~w.ok)
                 /\ (ret.msg = "invalid height" => ~h.ok)

-----------------------------------------------------------------------------
(* C9 *)

\* the literal tokens that quality_parser accepts
AcceptedLiterals ==
    { <<"l", "o", "w", "e", "s", "t">>,
      <<"m", "i", "n">>,
      <<"1", "4", "4", "p">>,
      <<"2", "4", "0", "p">>,
      <<"3", "6", "0", "p">>,
      <<"4", "8", "0", "p">>,
      <<"7", "2", "0", "p">>,
      <<"h", "d">>,
      <<"1", "0", "8", "0", "p">>,
      <<"f", "h", "d">>,
      <<"2", "k">>,
      <<"1", "4", "4", "0", "p">>,
      <<"q", "h", "d">>,
      <<"4", "k">>,
      <<"8", "k">>,
      <<"h", "i", "g", "h", "e", "s", "t">>,
      <<"m", "a", "x">> }

\* C9: a token that is no literal and holds no 'x' is refused, and the
\* message lists every literal that the parser accepts.
C9_RejectionListsEveryLiteral ==
    (ReturnedBy("quality_parser") /\ literal_quality(to_lowercase(token)) = "None"
         /\ ~contains(to_lowercase(token), "x")) =>
        /\ ret.kind = "err"
        /\ ret.msg = "possible values"
        /\ \A l \in AcceptedLiterals : \E i \in 1..Len(ret.listed) : ret.listed[i] = l

-----------------------------------------------------------------------------
(* C10 *)

\* C10: for a token with a ':' that does not start with "base64", the key
\* id is the text before the first ':' without its hyphens and in lower
\* case, and the key material is all the text after that first ':'; for
\* any other token there is no key id and the token is the key material.
\* (Material that starts with "base64:" is then rewritten in hex, so the
\* material is compared for the other tokens.)
C10_SplitRule ==
    ReturnedBy("key_parser") =>
        LET split == contains(token, ":") /\ ~starts_with(token, BASE64)
            kid == IF split
                   THEN to_lowercase(remove_char(split_next(token, ":"), "-"))
                   ELSE None
            material == IF split THEN AfterFirst(token, ":") ELSE token
        IN  /\ ret.kind = "ok" => ret.kid = kid
            /\ ~starts_with(material, BASE64_COLON)
                   => (ret.kind = "ok" /\ ret.key = material)

-----------------------------------------------------------------------------
(* C11 *)

\* the characters of the key material after its "base64:" prefix
AfterBase64Prefix(material) == SubSeq(material, Len(BASE64_COLON) + 1, Len(material))

\* the lower-case hex text that writes every byte, two digits a byte
HexOfEveryByte(bytes) == to_lowercase(hex_of_bytes(bytes))

\* C11: when the key material starts with "base64:", the stored material is
\* the lower-case hex of exactly the bytes that the characters after the
\* prefix decode to as base64, leading zero bytes included, and the key id
\* is the one of the split; when those characters are not valid base64 the
\* parse fails.
C11_Base64Normalization ==
    (ReturnedBy("key_parser") /\ starts_with(key_split(token).key, BASE64_COLON)) =>
        LET decoded == decode_block(AfterBase64Prefix(key_split(token).key)) IN
        IF decoded.kind = "err"
        THEN ret.kind = "err"
        ELSE /\ ret.kind = "ok"
             /\ ret.kid = key_split(token).kid
             /\ ret.key = HexOfEveryByte(decoded.val)

-----------------------------------------------------------------------------
(* C12 *)

\* the events of one kind in a log, in order
EventsIn(log, ev) == SelectSeq(log, LAMBDA e : e.ev = ev)
Events(ev) == EventsIn(io, ev)

\* the page was fetched
Fetched == Events("GET") # <<>>

\* the match on links.len() is over
AfterMatch == Fetched /\ pc \in {"assemble", "done"}

Succeeded == pc = "done" /\ ret.fn = "to_download_state" /\ ret.kind = "ok"
Failed == pc = "done" /\ ret.fn = "to_download_state" /\ ret.kind = "err"

\* line k of the prompt: the number k, counted from 1, then the k-th link
IsEnumerated(lines, ls) ==
    /\ Len(lines) = Len(ls)
    /\ \A k \in 1..Len(ls) :
           /\ remove_char(split_next(lines[k], ")"), " ") = decimal(k)
           /\ ends_with(lines[k], ls[k])

\* C12: for a Website input, once the match on the number of scraped links
\* is over: with no link the run has failed and no DownloadState exists;
\* with one link the working input is that link and no prompt was issued;
\* with two or more links exactly one prompt was issued, over the links
\* numbered from 1, and the working input is the link at the index the
\* user chose (the run has failed when the prompt gave no choice).  A
\* DownloadState made after a fetch holds one of the scraped links.
C12_CandidateSelection ==
    AfterMatch =>
        /\ Len(links) = 0 => Failed
        /\ Len(links) = 1 =>
               /\ Events("select") = <<>>
               /\ ~Failed
               /\ input = links[1]
        /\ Len(links) >= 2 =>
               /\ Len(Events("select")) = 1
               /\ IsEnumerated(Events("select")[1].arg, links)
               /\ IF Events("chosen") = <<>>
                  THEN Failed
                  ELSE /\ ~Failed
                       /\ Len(Events("chosen")) = 1
                       /\ input = links[Events("chosen")[1].arg[1] + 1]
        /\ Succeeded =>
               /\ ret.args_input = input
               /\ \E k \in 1..Len(links) : ret.args_input = links[k]

\* a DownloadState whose input is the second of three links, chosen in the
\* one prompt of the run
C12_Witness ==
    /\ Succeeded
    /\ Len(links) = 3
    /\ Len(Events("select")) = 1
    /\ Events("chosen")[1].arg = <<1>>
    /\ ret.args_input = links[2]

-----------------------------------------------------------------------------
(* C13 *)

\* the input the run was given: the input changes only after the request,
\* and the request is for the input of that moment (C13_StepRule)
OriginalInput == IF Fetched THEN Events("GET")[1].arg ELSE input

\* C13 as it is worded: every run that has ended built its client, exactly
\* once, and issued a page fetch exactly when its original input is a
\* Website, and then once; it ended in a failure or in one DownloadState.
C13_AsStated ==
    pc = "done" =>
        /\ Len(Events("client")) = 1
        /\ the_client # NoClient
        /\ Len(Events("GET")) <= 1
        /\ Fetched <=> input_type(OriginalInput) = "Website"
        /\ Succeeded \/ Failed

\* what holds in every state of a run
C13_StateRule ==
    /\ Len(Events("client")) = (IF pc = "args" THEN 0 ELSE 1)
    /\ Len(Events("GET")) <= 1
    /\ the_client = NoClient => (~Fetched /\ (pc = "done" => Failed))
    /\ (the_client # NoClient /\ pc \in {"match", "assemble", "done"}) =>
           (Fetched <=> input_type(OriginalInput) = "Website")
    /\ ~Fetched => links = <<>>
    /\ pc = "done" => (Succeeded \/ Failed)
    /\ Succeeded => ret.client = the_client
    /\ pc # "done" => ENABLED NextState

\* what holds of every step of a run
C13_StepRule ==
    /\ ~Fetched => input' = input
    /\ EventsIn(io', "GET") # Events("GET") =>
           /\ ~Fetched
           /\ the_client # NoClient
           /\ input_type(input) = "Website"
           /\ EventsIn(io', "GET") = <<Event("GET", input)>>
    /\ links' # links => (~Fetched /\ EventsIn(io', "GET") # <<>>)
    /\ the_client' # the_client => the_client = NoClient

\* C13, with the failure of the client told apart: self.client() is called
\* exactly once in every run; when it fails the run ends in a failure with
\* no request and the input as given; when it gives a client, a page fetch
\* is issued through that client exactly when the original input is a
\* Website, and at most once: an input of another type causes no request
\* and stays as given, and once a link has replaced the input nothing is
\* fetched or scraped again, whatever the type of the link.  A run that has
\* ended has ended in a failure or in one DownloadState, which holds the
\* client built.
C13_OneClientOneFetch == [](C13_StateRule) /\ [][C13_StepRule]_vars

\* a DownloadState whose input is a scraped link that is itself a Website,
\* after one request only
C13_Witness ==
    /\ Succeeded
    /\ Len(Events("GET")) = 1
    /\ ret.args_input # OriginalInput
    /\ input_type(ret.args_input) = "Website"

-----------------------------------------------------------------------------
(* C14 *)

\* the uri does not start with "http"
IsRelative(u) == ~starts_with(u, HTTP)

\* the call failed with a message that names the option
NamesBaseurl ==
    /\ ret.kind = "err"
    /\ \E i \in 1..Len(ret.msg) : ret.msg[i] = "--baseurl"

\* the result of resolving u against base: the joined URL, or the failure
\* of the URL parser
ResolvedAgainst(base, u) == [fn |-> "get_url"] @@ parse_join(base, u)

C14_ResultRule ==
    ReturnedBy("get_url") =>
        /\ ~IsRelative(uri) => (ret.kind = "ok" /\ ret.val = uri)
        /\ (IsRelative(uri) /\ baseurl # None) =>
               ret = ResolvedAgainst(baseurl, uri)
        /\ (IsRelative(uri) /\ baseurl = None /\ starts_with(input, HTTP)) =>
               ret = ResolvedAgainst(input, uri)
        /\ NamesBaseurl <=>
               (IsRelative(uri) /\ baseurl = None /\ ~starts_with(input, HTTP))

\* C14: get_url returns a uri that starts with "http" as it is, whatever
\* the baseurl and the input; any other uri is resolved against the baseurl
\* when there is one, and else against the input when the input starts
\* with "http"; the call fails with the message that names --baseurl
\* exactly when the uri is relative, there is no baseurl and the input does
\* not start with "http".  No step changes the input, the baseurl or the
\* uri.
C14_GetUrl ==
    /\ [](C14_ResultRule)
    /\ [][input' = input /\ baseurl' = baseurl /\ uri' = uri]_vars

\* a relative uri resolved against the baseurl although the input is an
\* http URL that would have given another result
C14_Witness ==
    /\ ReturnedBy("get_url")
    /\ IsRelative(uri)
    /\ baseurl # None
    /\ starts_with(input, HTTP)
    /\ ret.kind = "ok"
    /\ parse_join(input, uri).kind = "ok"
    /\ ret.val # parse_join(input, uri).val

====
